---------------------------- MODULE Spec2Model ----------------------------
(***************************************************************************)
(* pyKellymotion: the Kelly motor controller serial protocol.              *)
(*                                                                         *)
(*   protocol.py        frame codec: calculate_checksum, build_packet,     *)
(*                      validate_response, parse_response                  *)
(*                      the CALIBRATION_PARAMS table, decode_errors        *)
(*   communications.py  Communications: _write_bytes, _read_bytes,         *)
(*                      send_command (the request/retry cycle),            *)
(*                      write_config                                       *)
(*   parser.py          Parser: parse_response, get_config_value,          *)
(*                      get_all_config                                     *)
(*   kelly_controller.py  KellyController: read_monitor, read_config       *)
(*                                                                         *)
(* Bytes are integers 0..255, byte strings are sequences of bytes.  Python *)
(* indices are 0-based: Python's packet[i] is packet[i + 1] here.          *)
(* An Optional value is None (the empty tuple) or Some(x) (a 1-tuple).     *)
(* The result of a call is a record [exc, ret]: exc is "none" when the     *)
(* call returned ret, and names the exception when it raised.              *)
(*                                                                         *)
(* Five specifications:                                                    *)
(*   SpecCodec  the pure functions of protocol.py applied to drawn inputs  *)
(*   Spec       Communications: open/close and the steps of send_command   *)
(*              against a serial port whose device answers anything        *)
(*   SpecParser a Parser fed response payloads and asked for calibration   *)
(*              values, under the shipped table and an extended one        *)
(*   SpecErrors decode_errors applied to error words                       *)
(*   SpecController  read_monitor and read_config cycles of a              *)
(*              KellyController over Communications and Parser             *)
(***************************************************************************)
EXTENDS Integers, Sequences, FiniteSets, TLC

(***************************************************************************)
(* Bounds of the model                                                     *)
(***************************************************************************)
\* longest payload drawn byte by byte from PayloadBytes
MaxLen == 3
\* largest retries argument given to send_command
MaxRetries == 2

(***************************************************************************)
(* Python values                                                           *)
(***************************************************************************)
None == <<>>
Some(x) == <<x>>

Return(v) == [exc |-> "none", ret |-> v]
Raise(e, v) == [exc |-> e, ret |-> v]

Min(a, b) == IF a < b THEN a ELSE b

\* s[a:b] for 0 <= a, 0 <= b: slicing clamps to the length and never raises
Slice(s, a, b) == SubSeq(s, a + 1, Min(b, Len(s)))

\* whether s[i] is inside the byte string (else Python raises IndexError)
HasIndex(s, i) == 0 <= i /\ i < Len(s)

RECURSIVE Sum(_)
Sum(s) == IF s = <<>> THEN 0 ELSE s[1] + Sum(Tail(s))

\* 2^k
RECURSIVE Pow2(_)
Pow2(k) == IF k = 0 THEN 1 ELSE 2 * Pow2(k - 1)

(***************************************************************************)
(* protocol.py                                                             *)
(***************************************************************************)
MONITOR_ONE == 58
WRITE_CONFIG == 76

\* sum(data) & 0xFF
calculate_checksum(data) == Sum(data) % 256

\* checksum that leaves the length byte out
build_packet_no_length(cmd, data) ==
    LET length == Len(data)
        packet == <<cmd, length>> \o data
        checksum == IF length = 0 THEN cmd
                    ELSE calculate_checksum(<<cmd>> \o data)
    IN  packet \o <<checksum>>

\* the payload cut to the protocol ceiling of 16 bytes
build_packet_truncating(cmd, data) ==
    LET cut == Slice(data, 0, 16)
        length == Len(cut)
        packet == <<cmd, length>> \o cut
        checksum == IF length = 0 THEN cmd
                    ELSE calculate_checksum(packet)
    IN  packet \o <<checksum>>

build_packet(cmd, data) ==
    LET length == Len(data)
        packet == <<cmd, length>> \o data
        checksum == IF length = 0 THEN cmd
                    ELSE calculate_checksum(packet)
    IN  packet \o <<checksum>>

\* the completeness check left out: the checksum is read at packet[length + 2]
validate_response_no_complete(packet, expected_cmd) ==
    IF Len(packet) < 3 THEN Return(FALSE)
    ELSE
    LET cmd == packet[1]
        length == packet[2]
        expected_checksum == IF length = 0 THEN cmd
                             ELSE calculate_checksum(Slice(packet, 0, length + 2))
    IN  IF ~HasIndex(packet, length + 2) THEN Raise("IndexError", FALSE)
        ELSE IF packet[length + 3] # expected_checksum THEN Return(FALSE)
        ELSE IF expected_cmd # None /\ Some(cmd) # expected_cmd THEN Return(FALSE)
        ELSE Return(TRUE)

\* the command check left out
validate_response_no_cmd(packet, expected_cmd) ==
    IF Len(packet) < 3 THEN Return(FALSE)
    ELSE
    LET cmd == packet[1]
        length == packet[2]
        expected_len == length + 3
    IN  IF Len(packet) < expected_len THEN Return(FALSE)
        ELSE
        LET expected_checksum == IF length = 0 THEN cmd
                                 ELSE calculate_checksum(Slice(packet, 0, length + 2))
        IN  IF packet[length + 3] # expected_checksum THEN Return(FALSE)
            ELSE Return(TRUE)

\* the checksum compared on its low 7 bits only
validate_response_7bit(packet, expected_cmd) ==
    IF Len(packet) < 3 THEN Return(FALSE)
    ELSE
    LET cmd == packet[1]
        length == packet[2]
        expected_len == length + 3
    IN  IF Len(packet) < expected_len THEN Return(FALSE)
        ELSE
        LET expected_checksum == IF length = 0 THEN cmd
                                 ELSE calculate_checksum(Slice(packet, 0, length + 2))
        IN  IF packet[length + 3] % 128 # expected_checksum % 128 THEN Return(FALSE)
            ELSE IF expected_cmd # None /\ Some(cmd) # expected_cmd THEN Return(FALSE)
            ELSE Return(TRUE)

\* the expected length counted without the checksum byte
validate_response_short_len(packet, expected_cmd) ==
    IF Len(packet) < 3 THEN Return(FALSE)
    ELSE
    LET cmd == packet[1]
        length == packet[2]
        expected_len == length + 2
    IN  IF Len(packet) < expected_len THEN Return(FALSE)
        ELSE
        LET expected_checksum == IF length = 0 THEN cmd
                                 ELSE calculate_checksum(Slice(packet, 0, length + 2))
        IN  IF ~HasIndex(packet, length + 2) THEN Raise("IndexError", FALSE)
            ELSE IF packet[length + 3] # expected_checksum THEN Return(FALSE)
            ELSE IF expected_cmd # None /\ Some(cmd) # expected_cmd THEN Return(FALSE)
            ELSE Return(TRUE)

validate_response(packet, expected_cmd) ==
    IF Len(packet) < 3 THEN Return(FALSE)
    ELSE
    LET cmd == packet[1]
        length == packet[2]
        \* cmd + len + data + checksum
        expected_len == length + 3
    IN  IF Len(packet) < expected_len THEN Return(FALSE)
        ELSE
        LET expected_checksum == IF length = 0 THEN cmd
                                 ELSE calculate_checksum(Slice(packet, 0, length + 2))
        IN  IF ~HasIndex(packet, length + 2) THEN Raise("IndexError", FALSE)
            ELSE IF packet[length + 3] # expected_checksum THEN Return(FALSE)
            ELSE IF expected_cmd # None /\ Some(cmd) # expected_cmd THEN Return(FALSE)
            ELSE Return(TRUE)

\* the command returned although the packet is invalid
parse_response_half(packet) ==
    LET v == validate_response(packet, None)
    IN  IF v.exc # "none" THEN Raise(v.exc, <<None, None>>)
        ELSE IF ~v.ret THEN
            Return(<<IF Len(packet) > 0 THEN Some(packet[1]) ELSE None, None>>)
        ELSE
        LET cmd == packet[1]
            length == packet[2]
            data == IF length > 0 THEN Slice(packet, 2, 2 + length) ELSE <<>>
        IN  Return(<<Some(cmd), Some(data)>>)

\* the payload sliced one byte too far, taking the checksum in
parse_response_long(packet) ==
    LET v == validate_response(packet, None)
    IN  IF v.exc # "none" THEN Raise(v.exc, <<None, None>>)
        ELSE IF ~v.ret THEN Return(<<None, None>>)
        ELSE
        LET cmd == packet[1]
            length == packet[2]
            data == IF length > 0 THEN Slice(packet, 2, 3 + length) ELSE <<>>
        IN  Return(<<Some(cmd), Some(data)>>)

parse_response(packet) ==
    LET v == validate_response(packet, None)
    IN  IF v.exc # "none" THEN Raise(v.exc, <<None, None>>)
        ELSE IF ~v.ret THEN Return(<<None, None>>)
        ELSE
        LET cmd == packet[1]
            length == packet[2]
            data == IF length > 0 THEN Slice(packet, 2, 2 + length) ELSE <<>>
        IN  Return(<<Some(cmd), Some(data)>>)

\* Commands
MONITOR_TWO == 59
MONITOR_THREE == 60
GET_VERSION == 17
READ_CONFIG == 75

\* one entry of CALIBRATION_PARAMS: the key and the fields get_config_value
\* reads; bit and length are None where the entry has no such key
Param(name, offset, type, bit, length, format) ==
    [name |-> name, offset |-> offset, type |-> type, bit |-> bit,
     length |-> length, format |-> format]

\* CALIBRATION_PARAMS, in the dict's insertion order; offsets in decimal
CALIBRATION_PARAMS == <<
    Param("module_name", 0, 2, None, Some(8), "a"),
    Param("user_name", 8, 2, None, Some(4), "a"),
    Param("serial_number", 12, 2, None, Some(4), "h"),
    Param("software_version", 16, 2, None, Some(4), "h"),
    Param("startup_hpedal", 20, 0, Some(0), None, "uo"),
    Param("brake_hpedal", 20, 0, Some(1), None, "uo"),
    Param("ntl_hpedal", 20, 0, Some(2), None, "uo"),
    Param("foot_switch", 21, 0, Some(0), None, "uo"),
    Param("sw_level", 21, 0, Some(1), None, "uo"),
    Param("controller_type", 21, 0, Some(3), None, "uo"),
    Param("change_dir", 21, 0, Some(7), None, "uo"),
    Param("startup_wait_time", 22, 1, None, None, "uo"),
    Param("controller_voltage", 23, 2, None, Some(2), "uo"),
    Param("low_voltage", 25, 2, None, Some(2), "uo"),
    Param("over_voltage", 27, 2, None, Some(2), "uo"),
    Param("current_percent", 37, 1, None, None, "uo"),
    Param("battery_current_limit", 38, 1, None, None, "uo"),
    Param("tps_low", 92, 1, None, None, "uo"),
    Param("tps_high", 93, 1, None, None, "uo"),
    Param("tps_type", 95, 1, None, None, "uo"),
    Param("tps_dead_low", 96, 1, None, None, "uo"),
    Param("tps_dead_high", 97, 1, None, None, "uo"),
    Param("max_output_freq", 105, 2, None, Some(2), "uo"),
    Param("max_speed", 107, 2, None, Some(2), "uo"),
    Param("max_forward_speed", 109, 1, None, None, "uo"),
    Param("max_reverse_speed", 110, 1, None, None, "uo"),
    Param("regen_brake_percent", 230, 1, None, None, "uo"),
    Param("neutral_brake_percent", 231, 1, None, None, "uo"),
    Param("accel_time", 239, 1, None, None, "uo"),
    Param("accel_release_time", 240, 1, None, None, "uo"),
    Param("brake_time", 241, 1, None, None, "uo"),
    Param("brake_release_time", 242, 1, None, None, "uo"),
    Param("motor_poles", 268, 1, None, None, "uo"),
    Param("speed_sensor_type", 269, 1, None, None, "uo"),
    Param("motor_temp_sensor", 318, 1, None, None, "uo"),
    Param("high_temp_cutoff", 319, 1, None, None, "uo"),
    Param("high_temp_resume", 320, 1, None, None, "uo")
>>

\* ERROR_CODES: the description of bit b is ERROR_CODES[b + 1]
ERROR_CODES == <<
    "Identification Error", "Over Voltage", "Low Voltage", "Reserved",
    "Stall", "Internal Voltage Fault", "Controller Over Temp",
    "Throttle Error (Startup)", "Reserved", "Internal Reset",
    "Hall Sensor Error", "Reserved", "Reserved", "Reserved", "Reserved",
    "Motor Over Temp"
>>

\* error_word & (1 << bit)
BitSet(error_word, bit) == (error_word \div Pow2(bit)) % 2 = 1

\* the bits called Reserved left out
RECURSIVE decode_errors_named_only(_, _)
decode_errors_named_only(error_word, n) ==
    IF n = 0 THEN <<>>
    ELSE LET rest == decode_errors_named_only(error_word, n - 1)
         IN  IF BitSet(error_word, n - 1) /\ ERROR_CODES[n] # "Reserved"
             THEN Append(rest, ERROR_CODES[n])
             ELSE rest

\* decode_errors(error_word) after the first n entries of ERROR_CODES
RECURSIVE decode_errors(_, _)
decode_errors(error_word, n) ==
    IF n = 0 THEN <<>>
    ELSE LET rest == decode_errors(error_word, n - 1)
         IN  IF BitSet(error_word, n - 1)
             THEN Append(rest, ERROR_CODES[n])
             ELSE rest

(***************************************************************************)
(* parser.py: the calibration decoder                                      *)
(***************************************************************************)
\* decoded values: a Python int, or a str as the sequence of its code points
PyInt(n) == [kind |-> "int", n |-> n, s |-> <<>>]
PyStr(s) == [kind |-> "str", n |-> 0, s |-> s]

\* param.get(key, default)
Get(opt, default) == IF opt = None THEN default ELSE opt[1]

\* bytes.decode("ascii", errors="ignore"): bytes above 127 are dropped
RECURSIVE decode_ascii(_)
decode_ascii(b) ==
    IF b = <<>> THEN <<>>
    ELSE (IF b[1] < 128 THEN <<b[1]>> ELSE <<>>) \o decode_ascii(Tail(b))

\* NULs stripped at both ends
RECURSIVE strip_nul(_)
strip_nul(t) ==
    IF t = <<>> THEN <<>>
    ELSE IF t[Len(t)] = 0 THEN strip_nul(SubSeq(t, 1, Len(t) - 1))
    ELSE IF t[1] = 0 THEN strip_nul(Tail(t))
    ELSE t

\* str.rstrip("\x00")
RECURSIVE rstrip_nul(_)
rstrip_nul(t) ==
    IF t = <<>> THEN <<>>
    ELSE IF t[Len(t)] = 0 THEN rstrip_nul(SubSeq(t, 1, Len(t) - 1))
    ELSE t

\* one lowercase hexadecimal digit, as a code point
HexDigit(d) == IF d < 10 THEN 48 + d ELSE 87 + d

\* bytes.hex()
RECURSIVE hex(_)
hex(b) ==
    IF b = <<>> THEN <<>>
    ELSE <<HexDigit(b[1] \div 16), HexDigit(b[1] % 16)>> \o hex(Tail(b))

\* value = 0; for i in range(length): value = (value << 8) | data[offset + i]
\* the value after the first n turns of the loop
RECURSIVE shift_in(_, _, _)
shift_in(buf, offset, n) ==
    IF n = 0 THEN 0
    ELSE shift_in(buf, offset, n - 1) * 256 + buf[offset + n]

\* the mask applied before the shift: 0 or 2^bit comes back
decode_bit_masked(buf, param) ==
    LET bit == Get(param.bit, 0)
        b == buf[param.offset + 1]
    IN  Some(PyInt(((b \div Pow2(bit)) % 2) * Pow2(bit)))

\* param_type == 0: (self._config_data[offset] >> bit) & 1
decode_bit(buf, param) ==
    LET bit == Get(param.bit, 0)
    IN  Some(PyInt((buf[param.offset + 1] \div Pow2(bit)) % 2))

\* the sign test off by one: 128 is returned unchanged
decode_byte_late_sign(buf, param) ==
    LET val == buf[param.offset + 1]
    IN  IF param.format = "so"
        THEN Some(PyInt(IF val <= 128 THEN val ELSE val - 256))
        ELSE Some(PyInt(val))

\* param_type == 1: the byte, two's complement when the format is "so"
decode_byte(buf, param) ==
    LET val == buf[param.offset + 1]
    IN  IF param.format = "so"
        THEN Some(PyInt(IF val < 128 THEN val ELSE val - 256))
        ELSE Some(PyInt(val))

\* the bytes taken least significant first
RECURSIVE shift_in_le(_, _, _)
shift_in_le(buf, offset, n) ==
    IF n = 0 THEN 0
    ELSE shift_in_le(buf, offset, n - 1) + buf[offset + n] * Pow2(8 * (n - 1))

decode_multi_little_endian(buf, param) ==
    LET offset == param.offset
        length == Get(param.length, 2)
        bytes == Slice(buf, offset, offset + length)
    IN  IF offset + length > Len(buf) THEN None
        ELSE IF param.format = "a" THEN Some(PyStr(rstrip_nul(decode_ascii(bytes))))
        ELSE IF param.format = "h" THEN Some(PyStr(hex(bytes)))
        ELSE Some(PyInt(shift_in_le(buf, offset, length)))

\* the check of offset + length left out: the slice is cut at the end of
\* the buffer and what is there is decoded
decode_multi_no_length_check(buf, param) ==
    LET offset == param.offset
        length == Get(param.length, 2)
        bytes == Slice(buf, offset, offset + length)
    IN  IF param.format = "a" THEN Some(PyStr(rstrip_nul(decode_ascii(bytes))))
        ELSE IF param.format = "h" THEN Some(PyStr(hex(bytes)))
        ELSE Some(PyInt(shift_in(buf, offset, Len(bytes))))

\* param_type == 2: absent when the field ends beyond the buffer, else
\* text, hex text or the integer of the bytes, first byte most significant
decode_multi(buf, param) ==
    LET offset == param.offset
        length == Get(param.length, 2)
        bytes == Slice(buf, offset, offset + length)
    IN  IF offset + length > Len(buf) THEN None
        ELSE IF param.format = "a" THEN Some(PyStr(rstrip_nul(decode_ascii(bytes))))
        ELSE IF param.format = "h" THEN Some(PyStr(hex(bytes)))
        ELSE Some(PyInt(shift_in(buf, offset, length)))

\* param_name in table
HasParam(table, param_name) ==
    \E i \in 1..Len(table) : table[i].name = param_name

\* table[param_name]
Lookup(table, param_name) ==
    table[CHOOSE i \in 1..Len(table) : table[i].name = param_name]

\* Parser.get_config_value(param_name) with table as CALIBRATION_PARAMS and
\* buf as self._config_data
get_config_value(table, buf, param_name) ==
    IF buf = <<>> THEN None
    ELSE IF ~HasParam(table, param_name) THEN None
    ELSE
    LET param == Lookup(table, param_name)
    IN  IF param.offset >= Len(buf) THEN None
        ELSE IF param.type = 0 THEN decode_bit(buf, param)
        ELSE IF param.type = 1 THEN decode_byte(buf, param)
        ELSE IF param.type = 2 THEN decode_multi(buf, param)
        ELSE None

\* `if value:` for `if value is not None:`: a decoded 0 or "" is dropped
RECURSIVE get_all_config_truthy(_, _, _)
get_all_config_truthy(table, buf, n) ==
    IF n = 0 THEN <<>>
    ELSE LET value == get_config_value(table, buf, table[n].name)
             rest == get_all_config_truthy(table, buf, n - 1)
         IN  IF value # None /\ value[1] \notin {PyInt(0), PyStr(<<>>)}
             THEN Append(rest, <<table[n].name, value[1]>>)
             ELSE rest

\* Parser.get_all_config() after the first n entries of the table: the dict
\* as the sequence of its <<name, value>> items in insertion order
RECURSIVE get_all_config(_, _, _)
get_all_config(table, buf, n) ==
    IF n = 0 THEN <<>>
    ELSE LET value == get_config_value(table, buf, table[n].name)
             rest == get_all_config(table, buf, n - 1)
         IN  IF value # None
             THEN Append(rest, <<table[n].name, value[1]>>)
             ELSE rest

(***************************************************************************)
(* State                                                                   *)
(***************************************************************************)
VARIABLES
    \* SpecCodec: the inputs, the byte string under test and the results
    in_cmd,         \* build_packet's cmd
    in_data,        \* build_packet's data
    frame,          \* the byte string handed to validate_response / parse_response
    origin,         \* "none" | "built" | "flipped" | "truncated" | "received"
    expected_cmd,   \* the expected_cmd of the last validate_response call
    valid,          \* result of validate_response(frame, expected_cmd)
    parsed,         \* result of parse_response(frame)
    \* Spec: a Communications object and the send_command call in progress
    serial,         \* self.serial: "None" | "open" | "closed" (a Serial, not open)
    rxbuf,          \* the bytes waiting in the port's input buffer
    pc,             \* "idle" | "clear" | "write" | "read" | "validate" | "returned" | "raised"
                    \* | "rejected" (write_config refused its argument)
    cmd,            \* send_command's arguments and locals
    data,
    retries,
    attempt,
    packet,
    response,
    result,         \* what the call returned or raised
    ops,            \* history: the transport operations of the call, <<name, n>>,
                    \* and <<"write", n, frame>> for a frame written
    reads,          \* history: [attempt, bytes] of every _read_bytes of the call
    method,         \* the public method called last: "none" | "send_command" | "write_config"
    \* SpecParser: a Parser object and the last call made on it
    calibration_params, \* the CALIBRATION_PARAMS table the decoder reads
    config_data,    \* self._config_data
    monitor,        \* self.monitor
    p_call,         \* the last Parser call: its name, arguments and result
    repeat,         \* history: get_all_config calls in a row so far
    \* SpecErrors: decode_errors and its argument
    error_word,     \* decode_errors's error_word
    errors,         \* result of decode_errors(error_word)
    \* SpecController: a KellyController and the method in progress
    k_pc,           \* "idle" | "monitor" | "config" | "returned" | "raised"
    monitor_num,    \* read_monitor's loop variable, 0 outside read_monitor
    success,        \* read_monitor's success
    k_ret,          \* what read_monitor / read_config returned
    queries,        \* history: the queries of the cycle that have ended
    cycles          \* history: the controller calls made so far

codecVars == <<in_cmd, in_data, frame, origin, expected_cmd, valid, parsed>>
commVars == <<serial, rxbuf, pc, cmd, data, retries, attempt, packet, response,
              result, ops, reads, method>>
parserVars == <<calibration_params, config_data, monitor, p_call, repeat>>
errVars == <<error_word, errors>>
ctrlVars == <<k_pc, monitor_num, success, k_ret, queries, cycles>>
restVars == <<errVars, ctrlVars>>
vars == <<codecVars, commVars, parserVars, restVars>>

NotRun(v) == [exc |-> "unset", ret |-> v]

(***************************************************************************)
(* Inputs of SpecCodec                                                     *)
(***************************************************************************)
\* command bytes: the lowest, MONITOR_ONE, WRITE_CONFIG, the highest
CmdBytes == {0, MONITOR_ONE, WRITE_CONFIG, 255}
PayloadBytes == {0, 1, 255}
\* the bytes received packets are made of
RawBytes == {0, 1, 2, 255}
\* longest received packet drawn byte by byte from RawBytes
MaxRaw == 5

SeqsUpTo(S, n) == UNION {[1..k -> S] : k \in 0..n}

\* payloads of the sizes the protocol singles out: a config write (13), the
\* ceiling (16) and one past it (17); all 0xFF, or 1, 2, 3, ...
LongPayloads ==
    UNION {{[i \in 1..n |-> 255], [i \in 1..n |-> i]} : n \in {13, 16, 17}}

Payloads == SeqsUpTo(PayloadBytes, MaxLen) \cup LongPayloads
RawPackets == SeqsUpTo(RawBytes, MaxRaw)
ExpectedCmds == {None} \cup {Some(c) : c \in CmdBytes}

\* byte b with bit k inverted
FlipBit(b, k) == IF (b \div Pow2(k)) % 2 = 1 THEN b - Pow2(k) ELSE b + Pow2(k)

(***************************************************************************)
(* Communications is idle: nothing opened, no call made                    *)
(***************************************************************************)
CommInit ==
    /\ serial = "None"
    /\ rxbuf = <<>>
    /\ pc = "idle"
    /\ cmd = 0
    /\ data = <<>>
    /\ retries = 0
    /\ attempt = 0
    /\ packet = <<>>
    /\ response = <<>>
    /\ result = NotRun(<<FALSE, Some(<<>>)>>)
    /\ ops = <<>>
    /\ reads = <<>>
    /\ method = "none"

(***************************************************************************)
(* A Parser as constructed: no calibration data, every monitor field 0     *)
(***************************************************************************)
\* MonitorData()
MonitorData ==
    [tps_pedal |-> 0, brake_pedal |-> 0, brake_sw1 |-> 0, foot_sw |-> 0,
     forward_sw |-> 0, reverse_sw |-> 0, hall_a |-> 0, hall_b |-> 0,
     hall_c |-> 0, battery_voltage |-> 0, motor_temp |-> 0,
     controller_temp |-> 0, setting_dir |-> 0, actual_dir |-> 0,
     brake_sw2 |-> 0, low_speed |-> 0, motor_speed |-> 0,
     phase_current |-> 0, error_code |-> 0]

\* a Parser call: op names the method; name is get_config_value's argument,
\* cmd and data are parse_response's; ok, val and items hold the bool, the
\* Optional value or the dict returned
PCall(op, name, c, d, ok, val, items) ==
    [op |-> op, name |-> name, cmd |-> c, data |-> d, ok |-> ok, val |-> val,
     items |-> items]

NoCall == PCall("none", "", 0, <<>>, FALSE, None, <<>>)

ParserNew ==
    /\ config_data = <<>>
    /\ monitor = MonitorData
    /\ p_call = NoCall
    /\ repeat = 0

ParserIdle == calibration_params = CALIBRATION_PARAMS /\ ParserNew

\* decode_errors not called
ErrorsIdle ==
    /\ error_word = 0
    /\ errors = NotRun(<<>>)

\* KellyController(port): no method called yet
CtrlInit ==
    /\ k_pc = "idle"
    /\ monitor_num = 0
    /\ success = TRUE
    /\ k_ret = FALSE
    /\ queries = <<>>
    /\ cycles = 0

RestIdle == ErrorsIdle /\ CtrlInit

(***************************************************************************)
(* SpecCodec: build_packet, validate_response and parse_response applied   *)
(* to built packets, to built packets damaged on the wire, and to          *)
(* arbitrary received bytes                                                *)
(***************************************************************************)
CodecInit ==
    /\ \/ /\ in_cmd \in CmdBytes
          /\ in_data \in Payloads
          /\ frame = <<>>
          /\ origin = "none"
       \/ /\ in_cmd = 0
          /\ in_data = <<>>
          /\ frame \in RawPackets
          /\ origin = "received"
    /\ expected_cmd = None
    /\ valid = NotRun(FALSE)
    /\ parsed = NotRun(<<None, None>>)

Build ==
    /\ origin = "none"
    /\ frame' = build_packet(in_cmd, in_data)
    /\ origin' = "built"
    /\ UNCHANGED <<in_cmd, in_data, expected_cmd, valid, parsed, commVars, parserVars, restVars>>

\* one bit of a payload byte or of the checksum byte inverted on the wire
Flip ==
    /\ origin = "built"
    /\ \E i \in 2..(Len(frame) - 1), k \in 0..7 :
          frame' = [frame EXCEPT ![i + 1] = FlipBit(@, k)]
    /\ origin' = "flipped"
    /\ valid' = NotRun(FALSE)
    /\ parsed' = NotRun(<<None, None>>)
    /\ UNCHANGED <<in_cmd, in_data, expected_cmd, commVars, parserVars, restVars>>

\* the last byte lost on the wire
Truncate ==
    /\ origin = "built"
    /\ frame' = Slice(frame, 0, Len(frame) - 1)
    /\ origin' = "truncated"
    /\ valid' = NotRun(FALSE)
    /\ parsed' = NotRun(<<None, None>>)
    /\ UNCHANGED <<in_cmd, in_data, expected_cmd, commVars, parserVars, restVars>>

Validate ==
    /\ origin # "none"
    /\ \E e \in ExpectedCmds :
          /\ expected_cmd' = e
          /\ valid' = validate_response(frame, e)
    /\ UNCHANGED <<in_cmd, in_data, frame, origin, parsed, commVars, parserVars, restVars>>

Parse ==
    /\ origin # "none"
    /\ parsed' = parse_response(frame)
    /\ UNCHANGED <<in_cmd, in_data, frame, origin, expected_cmd, valid, commVars, parserVars, restVars>>

InitCodec == CodecInit /\ CommInit /\ ParserIdle /\ RestIdle
NextCodec == Build \/ Flip \/ Truncate \/ Validate \/ Parse
SpecCodec == InitCodec /\ [][NextCodec]_vars

(***************************************************************************)
(* communications.py: Communications                                       *)
(***************************************************************************)
\* the ceiling _read_bytes puts on the header's length byte
MAX_DATA_LEN == 16

Ramp(n) == [i \in 1..n |-> i]

\* what send_command is called with: a monitor query, a 13-byte config write
Calls == {<<MONITOR_ONE, <<>>>>, <<WRITE_CONFIG, Ramp(13)>>}

\* what the device may put on the wire after a frame was written to it
Wire == {
    <<>>,                                   \* nothing: the read times out
    <<58>>,                                 \* one byte, then silence
    <<58, 0>>,                              \* a header, then silence
    <<58, 2, 1>>,                           \* a header and a short body
    <<58, 0, 0>>,                           \* a bad checksum
    <<58, 0, 58>>,                          \* MONITOR_ONE, no payload
    <<58, 2, 1, 255, 60>>,                  \* MONITOR_ONE, two bytes (sum wraps)
    <<59, 0, 59>>,                          \* MONITOR_TWO, no payload
    <<76, 0, 76>>,                          \* WRITE_CONFIG, no payload
    <<58, 16>> \o Ramp(16) \o <<210>>,      \* MONITOR_ONE, 16 bytes
    <<58, 17>> \o Ramp(17) \o <<228>>,      \* a declared length of 17
    <<58, 255>> \o Ramp(17),                \* a declared length of 255
    <<58, 0, 58, 58, 0>>                    \* a frame followed by stray bytes
}

\* what the device may answer to a query c of the controller: nothing, a
\* frame of another command, the frame of c without payload and with 16
\* bytes, and for READ_CONFIG a frame of 17 bytes
Replies(c) ==
    {<<>>, build_packet(GET_VERSION, <<>>), build_packet(c, <<>>),
     build_packet(c, Ramp(16))}
        \cup (IF c = READ_CONFIG THEN {build_packet(c, Ramp(17))} ELSE {})

\* the answers to the frame just written
Answers == IF k_pc \in {"monitor", "config"} THEN Replies(cmd) ELSE Wire

Take(s, n) == SubSeq(s, 1, Min(n, Len(s)))
Drop(s, n) == SubSeq(s, Min(n, Len(s)) + 1, Len(s))

is_open == serial = "open"

InCall == pc \in {"clear", "write", "read", "validate"}

\* open(): a new Serial object, which opens or fails to
Open ==
    /\ ~InCall
    /\ serial' \in {"open", "closed"}
    /\ rxbuf' = <<>>
    /\ UNCHANGED <<pc, cmd, data, retries, attempt, packet, response, result,
                   ops, reads, method, codecVars, parserVars, restVars>>

\* close(): closes the port if there is one and it is open
Close ==
    /\ ~InCall
    /\ serial = "open"
    /\ serial' = "closed"
    /\ rxbuf' = <<>>
    /\ UNCHANGED <<pc, cmd, data, retries, attempt, packet, response, result,
                   ops, reads, method, codecVars, parserVars, restVars>>

\* send_command(c, d, r) is entered: the packet is built, the loop starts
Call ==
    /\ ~InCall
    /\ \E cd \in Calls, r \in 0..MaxRetries :
          /\ cmd' = cd[1]
          /\ data' = cd[2]
          /\ retries' = r
          /\ packet' = build_packet(cd[1], cd[2])
    /\ attempt' = 0
    /\ pc' = "clear"
    /\ response' = <<>>
    /\ result' = NotRun(<<FALSE, Some(<<>>)>>)
    /\ ops' = <<>>
    /\ reads' = <<>>
    /\ method' = "send_command"
    /\ UNCHANGED <<serial, rxbuf, codecVars, parserVars, restVars>>

\* send_command's default for retries
DEFAULT_RETRIES == 2
\* the length write_config insists on
CONFIG_WRITE_LEN == 13

\* the arguments write_config is called with: lengths 0, 12, 13 and 14
ConfigPayloads ==
    {Ramp(n) : n \in {0, CONFIG_WRITE_LEN - 1, CONFIG_WRITE_LEN, CONFIG_WRITE_LEN + 1}}
        \cup {[i \in 1..CONFIG_WRITE_LEN |-> 255]}

\* send_command(WRITE_CONFIG, d) is entered from write_config
StartWrite(d) ==
    /\ cmd' = WRITE_CONFIG
    /\ retries' = DEFAULT_RETRIES
    /\ packet' = build_packet(WRITE_CONFIG, d)
    /\ pc' = "clear"

\* write_config returns False without calling send_command
Reject ==
    /\ cmd' = 0
    /\ retries' = 0
    /\ packet' = <<>>
    /\ pc' = "rejected"

\* the length check left out: every payload goes to send_command
WriteConfig_any_length ==
    /\ ~InCall
    /\ \E d \in ConfigPayloads :
          /\ data' = d
          /\ StartWrite(d)
    /\ attempt' = 0
    /\ response' = <<>>
    /\ result' = NotRun(<<FALSE, Some(<<>>)>>)
    /\ ops' = <<>>
    /\ reads' = <<>>
    /\ method' = "write_config"
    /\ UNCHANGED <<serial, rxbuf, codecVars, parserVars, restVars>>

\* write_config(d): if len(data) != 13: return False
\* success, _ = self.send_command(Commands.WRITE_CONFIG, data)
WriteConfig ==
    /\ ~InCall
    /\ \E d \in ConfigPayloads :
          /\ data' = d
          /\ IF Len(d) # CONFIG_WRITE_LEN THEN Reject ELSE StartWrite(d)
    /\ attempt' = 0
    /\ response' = <<>>
    /\ result' = NotRun(<<FALSE, Some(<<>>)>>)
    /\ ops' = <<>>
    /\ reads' = <<>>
    /\ method' = "write_config"
    /\ UNCHANGED <<serial, rxbuf, codecVars, parserVars, restVars>>

\* `continue`, or the end of the loop: return False, b''
Continue ==
    IF attempt < retries
    THEN /\ attempt' = attempt + 1
         /\ pc' = "clear"
         /\ result' = result
    ELSE /\ attempt' = attempt
         /\ pc' = "returned"
         /\ result' = Return(<<FALSE, Some(<<>>)>>)

\* the buffer cleared before the first attempt only
ClearBuffer_once ==
    /\ pc = "clear"
    /\ \/ /\ serial = "None" \/ (serial = "open" /\ attempt > 0)
          /\ pc' = "write"
          /\ UNCHANGED <<rxbuf, result, ops>>
       \/ /\ serial = "open" /\ attempt = 0
          /\ rxbuf' = <<>>
          /\ ops' = Append(ops, <<"reset", 0>>)
          /\ pc' = "write"
          /\ UNCHANGED result
       \/ /\ serial = "closed"
          /\ pc' = "raised"
          /\ result' = Raise("PortNotOpenError", <<FALSE, Some(<<>>)>>)
          /\ UNCHANGED <<rxbuf, ops>>
    /\ UNCHANGED <<serial, cmd, data, retries, attempt, packet, response, reads,
                   method, codecVars, parserVars, restVars>>

\* if self.serial: self.serial.reset_input_buffer()
\* pyserial's reset_input_buffer raises PortNotOpenError on a port that is
\* not open; nothing in send_command catches it
ClearBuffer ==
    /\ pc = "clear"
    /\ \/ /\ serial = "None"
          /\ pc' = "write"
          /\ UNCHANGED <<rxbuf, result, ops>>
       \/ /\ serial = "open"
          /\ rxbuf' = <<>>
          /\ ops' = Append(ops, <<"reset", 0>>)
          /\ pc' = "write"
          /\ UNCHANGED result
       \/ /\ serial = "closed"
          /\ pc' = "raised"
          /\ result' = Raise("PortNotOpenError", <<FALSE, Some(<<>>)>>)
          /\ UNCHANGED <<rxbuf, ops>>
    /\ UNCHANGED <<serial, cmd, data, retries, attempt, packet, response, reads,
                   method, codecVars, parserVars, restVars>>

\* a failed write ends the call at once with (False, b'')
WriteBytes_gives_up ==
    /\ pc = "write"
    /\ \/ /\ ~is_open
          /\ pc' = "returned"
          /\ result' = Return(<<FALSE, Some(<<>>)>>)
          /\ UNCHANGED <<rxbuf, ops, attempt>>
       \/ /\ is_open
          /\ ops' = Append(ops, <<"write_error", Len(packet)>>)
          /\ pc' = "returned"
          /\ result' = Return(<<FALSE, Some(<<>>)>>)
          /\ UNCHANGED <<rxbuf, attempt>>
       \/ /\ is_open
          /\ ops' = Append(ops, <<"write", Len(packet), packet>>)
          /\ \E w \in Answers : rxbuf' = rxbuf \o w
          /\ pc' = "read"
          /\ UNCHANGED <<attempt, result>>
    /\ UNCHANGED <<serial, cmd, data, retries, packet, response, reads, method,
                   codecVars, parserVars, restVars>>

\* the frame is written and the next attempt starts without a read
WriteBytes_no_wait ==
    /\ pc = "write"
    /\ \/ /\ ~is_open
          /\ Continue
          /\ UNCHANGED <<rxbuf, ops>>
       \/ /\ is_open
          /\ ops' = Append(ops, <<"write_error", Len(packet)>>)
          /\ Continue
          /\ UNCHANGED rxbuf
       \/ /\ is_open
          /\ ops' = Append(ops, <<"write", Len(packet), packet>>)
          /\ \E w \in Answers : rxbuf' = rxbuf \o w
          /\ Continue
    /\ UNCHANGED <<serial, cmd, data, retries, packet, response, reads, method,
                   codecVars, parserVars, restVars>>

\* if not self._write_bytes(packet): continue
\* _write_bytes is False on a port that is not open and when write or flush
\* raises; after a write the device answers with any of Answers
WriteBytes ==
    /\ pc = "write"
    /\ \/ /\ ~is_open
          /\ Continue
          /\ UNCHANGED <<rxbuf, ops>>
       \/ /\ is_open
          /\ ops' = Append(ops, <<"write_error", Len(packet)>>)
          /\ Continue
          /\ UNCHANGED rxbuf
       \/ /\ is_open
          /\ ops' = Append(ops, <<"write", Len(packet), packet>>)
          /\ \E w \in Answers : rxbuf' = rxbuf \o w
          /\ pc' = "read"
          /\ UNCHANGED <<attempt, result>>
    /\ UNCHANGED <<serial, cmd, data, retries, packet, response, reads, method,
                   codecVars, parserVars, restVars>>

\* the declared length read as it is, without the limit of 16
read_bytes_unclamped(buf, err) ==
    IF err = "header" THEN [ret |-> <<>>, rest |-> buf, ops |-> <<<<"read", 2>>>>]
    ELSE
    LET header == Take(buf, 2)
        rest == Drop(buf, 2)
    IN  IF Len(header) < 2
        THEN [ret |-> <<>>, rest |-> rest, ops |-> <<<<"read", 2>>>>]
        ELSE
        LET length == header[2]
            remaining == Take(rest, length + 1)
            asked == <<<<"read", 2>>, <<"read", length + 1>>>>
        IN  IF err = "body"
            THEN [ret |-> <<>>, rest |-> rest, ops |-> asked]
            ELSE [ret |-> header \o remaining, rest |-> Drop(rest, length + 1),
                  ops |-> asked]

\* a short header not given up on: one more byte is asked for
read_bytes_reads_on(buf, err) ==
    IF err = "header" THEN [ret |-> <<>>, rest |-> buf, ops |-> <<<<"read", 2>>>>]
    ELSE
    LET header == Take(buf, 2)
        rest == Drop(buf, 2)
    IN  IF Len(header) < 2
        THEN [ret |-> <<>>, rest |-> rest,
              ops |-> <<<<"read", 2>>, <<"read", 1>>>>]
        ELSE
        LET length == Min(header[2], MAX_DATA_LEN)
            remaining == Take(rest, length + 1)
            asked == <<<<"read", 2>>, <<"read", length + 1>>>>
        IN  IF err = "body"
            THEN [ret |-> <<>>, rest |-> rest, ops |-> asked]
            ELSE [ret |-> header \o remaining, rest |-> Drop(rest, length + 1),
                  ops |-> asked]

\* _read_bytes() on an open port whose input buffer holds buf; err names the
\* serial.read that raises, if any.  [ret, rest, ops]: the bytes returned, the
\* bytes left in the buffer, the reads requested.
read_bytes(buf, err) ==
    IF err = "header" THEN [ret |-> <<>>, rest |-> buf, ops |-> <<<<"read", 2>>>>]
    ELSE
    LET header == Take(buf, 2)
        rest == Drop(buf, 2)
    IN  IF Len(header) < 2
        THEN [ret |-> <<>>, rest |-> rest, ops |-> <<<<"read", 2>>>>]
        ELSE
        LET length == Min(header[2], MAX_DATA_LEN)
            remaining == Take(rest, length + 1)
            asked == <<<<"read", 2>>, <<"read", length + 1>>>>
        IN  IF err = "body"
            THEN [ret |-> <<>>, rest |-> rest, ops |-> asked]
            ELSE [ret |-> header \o remaining, rest |-> Drop(rest, length + 1),
                  ops |-> asked]

\* response = self._read_bytes(); if not response: continue
ReadBytes ==
    /\ pc = "read"
    /\ \/ /\ ~is_open
          /\ response' = <<>>
          /\ UNCHANGED <<rxbuf, ops>>
       \/ /\ is_open
          /\ \E err \in {"none", "header", "body"} :
                LET r == read_bytes(rxbuf, err)
                IN  /\ response' = r.ret
                    /\ rxbuf' = r.rest
                    /\ ops' = ops \o r.ops
    /\ reads' = Append(reads, [attempt |-> attempt, bytes |-> response'])
    /\ IF response' = <<>>
       THEN Continue
       ELSE /\ pc' = "validate"
            /\ UNCHANGED <<attempt, result>>
    /\ UNCHANGED <<serial, cmd, data, retries, packet, method, codecVars, parserVars, restVars>>

\* the return left out while retries remain: the loop goes on after a valid
\* response
CheckResponse_keeps_going ==
    /\ pc = "validate"
    /\ LET v == validate_response(response, Some(cmd))
           p == parse_response(response)
       IN  IF v.exc # "none" \/ p.exc # "none"
           THEN /\ pc' = "raised"
                /\ result' = Raise("IndexError", <<FALSE, Some(<<>>)>>)
                /\ UNCHANGED attempt
           ELSE IF ~v.ret
           THEN Continue
           ELSE IF attempt < retries
           THEN /\ pc' = "clear"
                /\ attempt' = attempt + 1
                /\ result' = Return(<<TRUE, p.ret[2]>>)
           ELSE /\ pc' = "returned"
                /\ result' = Return(<<TRUE, p.ret[2]>>)
                /\ UNCHANGED attempt
    /\ UNCHANGED <<serial, rxbuf, cmd, data, retries, packet, response, ops,
                   reads, method, codecVars, parserVars, restVars>>

\* if not validate_response(response, cmd): continue
\* _, resp_data = parse_response(response); return True, resp_data
CheckResponse ==
    /\ pc = "validate"
    /\ LET v == validate_response(response, Some(cmd))
           p == parse_response(response)
       IN  IF v.exc # "none"
           THEN /\ pc' = "raised"
                /\ result' = Raise(v.exc, <<FALSE, Some(<<>>)>>)
                /\ UNCHANGED attempt
           ELSE IF ~v.ret
           THEN Continue
           ELSE IF p.exc # "none"
           THEN /\ pc' = "raised"
                /\ result' = Raise(p.exc, <<FALSE, Some(<<>>)>>)
                /\ UNCHANGED attempt
           ELSE /\ pc' = "returned"
                /\ result' = Return(<<TRUE, p.ret[2]>>)
                /\ UNCHANGED attempt
    /\ UNCHANGED <<serial, rxbuf, cmd, data, retries, packet, response, ops,
                   reads, method, codecVars, parserVars, restVars>>

\* SpecCodec's variables at rest
CodecIdle ==
    /\ in_cmd = 0
    /\ in_data = <<>>
    /\ frame = <<>>
    /\ origin = "none"
    /\ expected_cmd = None
    /\ valid = NotRun(FALSE)
    /\ parsed = NotRun(<<None, None>>)

Init == CommInit /\ CodecIdle /\ ParserIdle /\ RestIdle
Next == Open \/ Close \/ Call \/ WriteConfig \/ ClearBuffer \/ WriteBytes
            \/ ReadBytes \/ CheckResponse
Spec == Init /\ [][Next]_vars

(***************************************************************************)
(* SpecParser: a Parser fed response payloads and asked for calibration    *)
(* values                                                                  *)
(***************************************************************************)
\* get_all_config calls in a row
MaxRepeat == 2

\* n bytes b
Fill(n, b) == [i \in 1..n |-> b]

\* n bytes that differ from their neighbours
Mixed(n) == [i \in 1..n |-> (i * 37 + 11) % 256]

\* the first 25 bytes of a calibration block: module name "KBLS", user name
\* "U1" around a byte that is not ASCII, serial number 12 ab 00 ff, version
\* 01 02 03 04, the three switch bits 101, byte 0x15 = 10000011, start-up
\* wait 7, controller voltage 0x012c
Scenario ==
    <<75, 66, 76, 83, 0, 0, 0, 0,   85, 200, 49, 0,   18, 171, 0, 255,
      1, 2, 3, 4,   5, 131, 7, 1, 44>>

\* a 12-byte block: module name "MOTOR" padded with three NULs, user name
\* NUL "A" NUL "B"
MotorBlock == <<77, 79, 84, 79, 82, 0, 0, 0,   0, 65, 0, 66>>

\* buffer lengths on both sides of the ends of the fields at offsets 0,
\* 0x15 and 0x17, and the length that holds every field (0x140 is the last)
BufferLens == {7, 8, 21, 22, 24, 25, 321}

\* the calibration payloads handed to the parser
Buffers ==
    {<<>>, Scenario, MotorBlock, Fill(25, 0), Fill(321, 0), Fill(25, 128)}
        \cup {Fill(n, 255) : n \in BufferLens}
        \cup {Mixed(n) : n \in BufferLens}

\* entries that stand for schema entries of the shapes the shipped table
\* does not use: a signed byte, integers of 1 and 3 bytes, a 3-byte integer
\* tagged signed, and entries without a bit or length key
ProbeParams == <<
    Param("probe_signed_byte", 21, 1, None, None, "so"),
    Param("probe_int1", 21, 2, None, Some(1), "uo"),
    Param("probe_int3", 22, 2, None, Some(3), "uo"),
    Param("probe_int3_signed", 22, 2, None, Some(3), "so"),
    Param("probe_default_length", 23, 2, None, None, "uo"),
    Param("probe_default_bit", 21, 0, None, None, "uo")
>>

Tables == {CALIBRATION_PARAMS, CALIBRATION_PARAMS \o ProbeParams}

\* the names get_config_value is asked for: every key, and one that is none
ParamNames ==
    {calibration_params[i].name : i \in 1..Len(calibration_params)}
        \cup {"no_such_param"}

\* the monitor payloads handed to the parser
MonitorPayloads == {<<>>} \cup {Ramp(n) : n \in {1, 2, 5, 6, 15, 16, 17}}

\* the (cmd, data) pairs parse_response is called with
Responses ==
    ({MONITOR_ONE, MONITOR_TWO, MONITOR_THREE} \X MonitorPayloads)
        \cup ({READ_CONFIG} \X Buffers)
        \cup ({GET_VERSION, 0} \X {<<>>, Ramp(2)})

ParserInit ==
    /\ calibration_params \in Tables
    /\ ParserNew

\* data[12] and data[13] stored the wrong way round
parse_monitor_one_swapped(mon, d) ==
    IF Len(d) < 16 THEN [ret |-> FALSE, monitor |-> mon]
    ELSE [ret |-> TRUE,
          monitor |-> [mon EXCEPT !.tps_pedal = d[1], !.brake_pedal = d[2],
                !.brake_sw1 = d[3], !.foot_sw = d[4], !.forward_sw = d[5],
                !.reverse_sw = d[6], !.hall_a = d[7], !.hall_b = d[8],
                !.hall_c = d[9], !.battery_voltage = d[10],
                !.motor_temp = d[11], !.controller_temp = d[12],
                !.setting_dir = d[14], !.actual_dir = d[13],
                !.brake_sw2 = d[15], !.low_speed = d[16]]]

\* _parse_monitor_one
parse_monitor_one(mon, d) ==
    IF Len(d) < 16 THEN [ret |-> FALSE, monitor |-> mon]
    ELSE [ret |-> TRUE,
          monitor |-> [mon EXCEPT !.tps_pedal = d[1], !.brake_pedal = d[2],
                !.brake_sw1 = d[3], !.foot_sw = d[4], !.forward_sw = d[5],
                !.reverse_sw = d[6], !.hall_a = d[7], !.hall_b = d[8],
                !.hall_c = d[9], !.battery_voltage = d[10],
                !.motor_temp = d[11], !.controller_temp = d[12],
                !.setting_dir = d[13], !.actual_dir = d[14],
                !.brake_sw2 = d[15], !.low_speed = d[16]]]

\* the speed stored before the length is found too short for the current
parse_monitor_two_partial(mon, d) ==
    IF Len(d) < 5 THEN [ret |-> FALSE, monitor |-> mon]
    ELSE IF Len(d) < 6
    THEN [ret |-> FALSE,
          monitor |-> [mon EXCEPT !.motor_speed = d[4] * 256 + d[5]]]
    ELSE [ret |-> TRUE,
          monitor |-> [mon EXCEPT !.motor_speed = d[4] * 256 + d[5],
                                  !.phase_current = d[6]]]

\* _parse_monitor_two: (data[3] << 8) | data[4], data[5]
parse_monitor_two(mon, d) ==
    IF Len(d) < 6 THEN [ret |-> FALSE, monitor |-> mon]
    ELSE [ret |-> TRUE,
          monitor |-> [mon EXCEPT !.motor_speed = d[4] * 256 + d[5],
                                  !.phase_current = d[6]]]

\* _parse_monitor_three: (data[0] << 8) | data[1]
parse_monitor_three(mon, d) ==
    IF Len(d) < 2 THEN [ret |-> FALSE, monitor |-> mon]
    ELSE [ret |-> TRUE, monitor |-> [mon EXCEPT !.error_code = d[1] * 256 + d[2]]]

\* Parser.parse_response(c, d): the bool returned and the fields afterwards
parser_parse_response(mon, cfg, c, d) ==
    IF c = MONITOR_ONE
    THEN [ret |-> parse_monitor_one(mon, d).ret,
          monitor |-> parse_monitor_one(mon, d).monitor, config |-> cfg]
    ELSE IF c = MONITOR_TWO
    THEN [ret |-> parse_monitor_two(mon, d).ret,
          monitor |-> parse_monitor_two(mon, d).monitor, config |-> cfg]
    ELSE IF c = MONITOR_THREE
    THEN [ret |-> parse_monitor_three(mon, d).ret,
          monitor |-> parse_monitor_three(mon, d).monitor, config |-> cfg]
    ELSE IF c = READ_CONFIG
    THEN [ret |-> TRUE, monitor |-> mon, config |-> d]
    ELSE IF c = GET_VERSION
    THEN [ret |-> TRUE, monitor |-> mon, config |-> cfg]
    ELSE [ret |-> FALSE, monitor |-> mon, config |-> cfg]

\* parser.parse_response(c, d)
ParseResponse ==
    /\ \E r \in Responses :
          LET out == parser_parse_response(monitor, config_data, r[1], r[2])
          IN  /\ monitor' = out.monitor
              /\ config_data' = out.config
              /\ p_call' = PCall("parse_response", "", r[1], r[2], out.ret,
                                 None, <<>>)
    /\ repeat' = 0
    /\ UNCHANGED <<calibration_params, codecVars, commVars, restVars>>

\* parser.get_config_value(name)
GetConfigValue ==
    /\ \E name \in ParamNames :
          p_call' = PCall("get_config_value", name, 0, <<>>, FALSE,
                          get_config_value(calibration_params, config_data, name),
                          <<>>)
    /\ repeat' = 0
    /\ UNCHANGED <<calibration_params, config_data, monitor, codecVars, commVars, restVars>>

\* the buffer handed over to the result: nothing is left for the next call
GetAllConfig_consumes ==
    /\ repeat < MaxRepeat
    /\ p_call' = PCall("get_all_config", "", 0, <<>>, FALSE, None,
                       get_all_config(calibration_params, config_data,
                                      Len(calibration_params)))
    /\ repeat' = repeat + 1
    /\ config_data' = <<>>
    /\ UNCHANGED <<calibration_params, monitor, codecVars, commVars, restVars>>

\* parser.get_all_config()
GetAllConfig ==
    /\ repeat < MaxRepeat
    /\ p_call' = PCall("get_all_config", "", 0, <<>>, FALSE, None,
                       get_all_config(calibration_params, config_data,
                                      Len(calibration_params)))
    /\ repeat' = repeat + 1
    /\ UNCHANGED <<calibration_params, config_data, monitor, codecVars, commVars, restVars>>

InitParser == ParserInit /\ CodecIdle /\ CommInit /\ RestIdle
NextParser == ParseResponse \/ GetConfigValue \/ GetAllConfig
SpecParser == InitParser /\ [][NextParser]_vars

(***************************************************************************)
(* SpecController: KellyController.read_monitor and read_config on top of  *)
(* Communications and Parser                                               *)
(***************************************************************************)
\* controller calls made in one run
MaxCycles == 2

Busy == k_pc \in {"monitor", "config"}

\* comm.send_command(c) with the default data and retries is entered
StartCommand(c) ==
    /\ cmd' = c
    /\ data' = <<>>
    /\ retries' = DEFAULT_RETRIES
    /\ packet' = build_packet(c, <<>>)
    /\ attempt' = 0
    /\ pc' = "clear"
    /\ response' = <<>>
    /\ result' = NotRun(<<FALSE, Some(<<>>)>>)
    /\ ops' = <<>>
    /\ reads' = <<>>
    /\ method' = "send_command"
    /\ UNCHANGED <<serial, rxbuf>>

\* send_monitor_query(n)'s command
MonitorCmd(n) ==
    IF n = 1 THEN MONITOR_ONE ELSE IF n = 2 THEN MONITOR_TWO ELSE MONITOR_THREE

\* connect() / disconnect() between two calls
Connect == ~Busy /\ Open
Disconnect == ~Busy /\ Close

\* read_monitor() is entered: success = True, the first query is sent
ReadMonitor ==
    /\ ~Busy
    /\ cycles < MaxCycles
    /\ cycles' = cycles + 1
    /\ k_pc' = "monitor"
    /\ monitor_num' = 1
    /\ success' = TRUE
    /\ queries' = <<>>
    /\ StartCommand(MonitorCmd(1))
    /\ UNCHANGED <<k_ret, errVars, codecVars, parserVars>>

\* the entry of the history for the query that ended
Query(ok, p_ok) ==
    [cmd |-> cmd, ok |-> ok, response |-> response, data |-> result.ret[2][1],
     parsed |-> p_ok]

\* the rest of a turn of read_monitor's loop, and the next turn or the return
NextQuery(ok) ==
    /\ success' = (success /\ ok)
    /\ IF monitor_num < 3
       THEN /\ monitor_num' = monitor_num + 1
            /\ StartCommand(MonitorCmd(monitor_num + 1))
            /\ UNCHANGED <<k_pc, k_ret>>
       ELSE /\ k_pc' = "returned"
            /\ k_ret' = success'
            /\ UNCHANGED <<monitor_num, commVars>>


(***************************************************************************)
\* self.parser.parse_response(c, d), its result dropped by the caller
ParseInto(c, d) ==
    LET out == parser_parse_response(monitor, config_data, c, d)
    IN  /\ monitor' = out.monitor
        /\ config_data' = out.config
        /\ p_call' = PCall("parse_response", "", c, d, out.ret, None, <<>>)
        /\ repeat' = 0
        /\ queries' = Append(queries, Query(TRUE, out.ret))

\* ok, data = self.comm.send_monitor_query(monitor_num) has returned:
\* if ok: self.parser.parse_response(cmd, data) else: success = False
MonitorQueryDone ==
    /\ k_pc = "monitor"
    /\ pc = "returned"
    /\ IF result.ret[1]
       THEN ParseInto(MONITOR_ONE + (monitor_num - 1), result.ret[2][1])
       ELSE /\ queries' = Append(queries, Query(FALSE, FALSE))
            /\ UNCHANGED <<monitor, config_data, p_call, repeat>>
    /\ NextQuery(result.ret[1])
    /\ UNCHANGED <<calibration_params, cycles, errVars, codecVars>>

\* read_config() is entered: comm.read_config() sends READ_CONFIG
ReadConfig ==
    /\ ~Busy
    /\ cycles < MaxCycles
    /\ cycles' = cycles + 1
    /\ k_pc' = "config"
    /\ monitor_num' = 0
    /\ queries' = <<>>
    /\ StartCommand(READ_CONFIG)
    /\ UNCHANGED <<success, k_ret, errVars, codecVars, parserVars>>

\* success, data = self.comm.read_config() has returned:
\* if success: parse_response(READ_CONFIG, data); return True
ReadConfigDone ==
    /\ k_pc = "config"
    /\ pc = "returned"
    /\ IF result.ret[1]
       THEN ParseInto(READ_CONFIG, result.ret[2][1])
       ELSE /\ queries' = Append(queries, Query(FALSE, FALSE))
            /\ UNCHANGED <<monitor, config_data, p_call, repeat>>
    /\ k_pc' = "returned"
    /\ k_ret' = result.ret[1]
    /\ UNCHANGED <<monitor_num, success, calibration_params, cycles, errVars,
                   codecVars, commVars>>

\* an exception of send_command leaves read_monitor / read_config, which
\* catch nothing
Propagate ==
    /\ Busy
    /\ pc = "raised"
    /\ k_pc' = "raised"
    /\ UNCHANGED <<monitor_num, success, k_ret, queries, cycles, errVars,
                   codecVars, commVars, parserVars>>

InitController == CommInit /\ CodecIdle /\ ParserIdle /\ RestIdle
NextController ==
    \/ Connect \/ Disconnect \/ ReadMonitor \/ MonitorQueryDone
    \/ ReadConfig \/ ReadConfigDone \/ Propagate
    \/ ClearBuffer \/ WriteBytes \/ ReadBytes \/ CheckResponse
SpecController == InitController /\ [][NextController]_vars

(***************************************************************************)
(* SpecErrors: decode_errors applied to error words                        *)
(***************************************************************************)
\* every word up to MaxWord is decoded
MaxWord == 1023

\* the error words: the low ones, each high bit alone, and some mixed
Words ==
    (0..MaxWord) \cup {Pow2(b) : b \in 0..15}
        \cup {65535, 32769, 32777, 43690, 21845}

ErrorsInit ==
    /\ error_word \in Words
    /\ errors = NotRun(<<>>)

\* decode_errors(error_word)
DecodeErrors ==
    /\ errors.exc = "unset"
    /\ errors' = Return(decode_errors(error_word, Len(ERROR_CODES)))
    /\ UNCHANGED <<error_word, ctrlVars, codecVars, commVars, parserVars>>

InitErrors == ErrorsInit /\ CtrlInit /\ CodecIdle /\ CommInit /\ ParserIdle
NextErrors == DecodeErrors
SpecErrors == InitErrors /\ [][NextErrors]_vars

(***************************************************************************)
(* Properties of the frame codec (SpecCodec)                               *)
(***************************************************************************)
ValidateRan == valid.exc # "unset"
ParseRan == parsed.exc # "unset"

\* C1: a packet built from command C and a payload of at most 16 bytes passes
\* validate_response with expected_cmd = C.
C1_BuiltFrameValidates ==
    (origin = "built" /\ Len(in_data) <= 16 /\ ValidateRan
        /\ expected_cmd = Some(in_cmd))
    => valid = Return(TRUE)

C1_Witness ==
    /\ origin = "built"
    /\ Len(in_data) = 16
    /\ expected_cmd = Some(in_cmd)
    /\ valid = Return(TRUE)

\* C2: build_packet(C, P) is [C][|P|][P...][checksum], P whole, the checksum
\* being C for an empty P and (C + |P| + sum of P) mod 256 otherwise;
\* build_packet(0x3A, empty) is [0x3A, 0x00, 0x3A].
C2_BuiltFrameLayout ==
    origin = "built" =>
        /\ frame = <<in_cmd, Len(in_data)>> \o in_data
                     \o <<IF in_data = <<>> THEN in_cmd
                          ELSE (in_cmd + Len(in_data) + Sum(in_data)) % 256>>
        /\ (in_cmd = 58 /\ in_data = <<>>) => frame = <<58, 0, 58>>

C2_Witness ==
    /\ origin = "built"
    /\ Len(in_data) = 17
    /\ Len(frame) = 20
    /\ in_cmd + 17 + Sum(in_data) > 255

\* the four conditions of validate_response, (c) read only under (a) and (b)
CondLength(p) == Len(p) >= 3
CondComplete(p) == Len(p) >= 3 + p[2]
CondChecksum(p) ==
    p[p[2] + 3] = IF p[2] = 0 THEN p[1] ELSE Sum(SubSeq(p, 1, p[2] + 2)) % 256
CondCommand(p, e) == e = None \/ e = Some(p[1])

\* C3: validate_response raises on no byte string, and returns True exactly
\* when the packet has at least 3 bytes, is complete, carries the right
\* checksum and, if a command is expected, starts with it.
C3_ValidateFailsClosed ==
    ValidateRan =>
        /\ valid.exc = "none"
        /\ valid.ret <=> (/\ CondLength(frame)
                          /\ CondComplete(frame)
                          /\ CondChecksum(frame)
                          /\ CondCommand(frame, expected_cmd))

\* an incomplete packet of three bytes or more is refused without a raise
C3_Witness ==
    /\ origin = "received"
    /\ Len(frame) >= 3
    /\ Len(frame) < 3 + frame[2]
    /\ valid = Return(FALSE)

\* C4: parse_response returns (packet[0], packet[2 : 2 + packet[1]]) when
\* validate_response without an expected command accepts the packet and
\* (None, None) otherwise, never one component alone; a built packet parses
\* back to its command and payload.
C4_ParseAllOrNothing ==
    ParseRan =>
        /\ parsed.exc = "none"
        /\ parsed.ret[1] = None <=> parsed.ret[2] = None
        /\ (ValidateRan /\ expected_cmd = None /\ valid = Return(TRUE))
            => parsed.ret = <<Some(frame[1]), Some(SubSeq(frame, 3, 2 + frame[2]))>>
        /\ (ValidateRan /\ expected_cmd = None /\ valid # Return(TRUE))
            => parsed.ret = <<None, None>>
        /\ origin = "built" => parsed.ret = <<Some(in_cmd), Some(in_data)>>

\* received bytes that fail validation parse to (None, None)
C4_Witness ==
    /\ origin = "received"
    /\ Len(frame) >= 3
    /\ expected_cmd = None
    /\ valid = Return(FALSE)
    /\ parsed = Return(<<None, None>>)

\* C5: a built packet (payload of at most 16 bytes) with one bit of a
\* payload byte or of the checksum byte inverted fails validate_response.
C5_BitFlipDetected ==
    (origin = "flipped" /\ Len(in_data) <= 16 /\ ValidateRan)
    => valid = Return(FALSE)

\* a flip inside a 16-byte payload (the checksum byte is intact), checked
\* with the command that was sent
C5_Witness ==
    /\ origin = "flipped"
    /\ Len(in_data) = 16
    /\ frame[Len(frame)] = (in_cmd + 16 + Sum(in_data)) % 256
    /\ expected_cmd = Some(in_cmd)
    /\ valid = Return(FALSE)

\* C6: a built packet with its last byte removed parses to (None, None).
C6_TruncatedParsesInvalid ==
    (origin = "truncated" /\ ParseRan) => parsed = Return(<<None, None>>)

C6_Witness ==
    /\ origin = "truncated"
    /\ Len(in_data) >= 1
    /\ Len(frame) = Len(in_data) + 2
    /\ parsed = Return(<<None, None>>)

(***************************************************************************)
(* Properties of send_command (Spec)                                       *)
(***************************************************************************)
RECURSIVE CountOps(_, _)
CountOps(log, names) ==
    IF log = <<>> THEN 0
    ELSE (IF log[1][1] \in names THEN 1 ELSE 0) + CountOps(Tail(log), names)

\* serial.write calls of the call so far, failed ones included
WriteCalls == CountOps(ops, {"write", "write_error"})

\* p is a complete frame with the right checksum that starts with command c
Accepts(p, c) ==
    /\ CondLength(p)
    /\ CondComplete(p)
    /\ CondChecksum(p)
    /\ p[1] = c

\* bytes [2 : 2 + length] of a frame
Payload(p) == SubSeq(p, 3, 2 + p[2])

NoValidResponse == \A i \in 1..Len(reads) : ~Accepts(reads[i].bytes, cmd)

Failure == Return(<<FALSE, Some(<<>>)>>)

\* the loop runs at most retries + 1 times and writes at most once per turn
AttemptsBounded ==
    /\ attempt <= retries
    /\ WriteCalls <= attempt + 1
    /\ Len(reads) <= attempt + 1

\* C7: send_command makes at most retries + 1 attempts, hence at most
\* retries + 1 writes, and ends; when no attempt got a valid response it
\* ends by returning (False, b'').
C7_BoundedThenFailure ==
    /\ attempt <= retries
    /\ WriteCalls <= retries + 1
    /\ (pc \in {"returned", "raised"} /\ NoValidResponse) => result = Failure

\* C8: when the first k attempts read garbage and attempt k + 1 reads a
\* response valid for the command sent, send_command returns (True, the
\* payload of that response) after exactly k + 1 writes.
C8_RetryUntilValid ==
    pc = "returned" =>
        \A k \in 0..retries :
            (/\ Len(reads) >= k + 1
             /\ \A i \in 1..(k + 1) : reads[i].attempt = i - 1
             /\ \A i \in 1..k : ~Accepts(reads[i].bytes, cmd)
             /\ Accepts(reads[k + 1].bytes, cmd))
            => /\ result = Return(<<TRUE, Some(Payload(reads[k + 1].bytes))>>)
               /\ WriteCalls = k + 1

\* retries = 2: silence, then a bad checksum, then a valid two-byte response
C8_Witness ==
    /\ pc = "returned"
    /\ retries = 2
    /\ Len(reads) = 3
    /\ reads[1].bytes = <<>>
    /\ reads[2].bytes = <<58, 0, 0>>
    /\ reads[3].bytes = <<58, 2, 1, 255, 60>>
    /\ result = Return(<<TRUE, Some(<<1, 255>>)>>)
    /\ WriteCalls = 3

\* C9: a valid response for the command sent is the last thing the call
\* does on the transport: it is the last read, no clear, write or read follows
\* it, and the call returns its payload.
C9_ReturnsOnFirstValid ==
    \A i \in 1..Len(reads) :
        Accepts(reads[i].bytes, cmd) =>
            /\ i = Len(reads)
            /\ pc \in {"validate", "returned"}
            /\ ops[Len(ops)][1] = "read"
            /\ pc = "returned"
                => result = Return(<<TRUE, Some(Payload(reads[i].bytes))>>)

\* returned on the first attempt with two retries left
C9_Witness ==
    /\ pc = "returned"
    /\ retries = 2
    /\ attempt = 0
    /\ result = Return(<<TRUE, Some(<<>>)>>)
    /\ ops = <<<<"reset", 0>>, <<"write", 3, <<58, 0, 58>>>>, <<"read", 2>>, <<"read", 1>>>>

\* what `continue` does with a failed attempt
MovesOn ==
    IF attempt < retries
    THEN pc' = "clear" /\ attempt' = attempt + 1
    ELSE pc' = "returned" /\ result' = Failure

SuccessIsValidated ==
    (pc = "returned" /\ result.ret[1]) =>
        /\ result.exc = "none"
        /\ Len(reads) >= 1
        /\ reads[Len(reads)] = [attempt |-> attempt, bytes |-> response]
        /\ Accepts(response, cmd)
        /\ result.ret[2] = Some(Payload(response))

BadReadMovesOn ==
    (\/ pc = "read" /\ response' = <<>>
     \/ pc = "validate" /\ ~Accepts(response, cmd))
    => MovesOn

\* C10: send_command returns True only when the bytes read in its last
\* attempt are a complete frame with the right checksum for the command sent,
\* and then returns bytes [2 : 2 + length] of it; an empty, short, bad-checksum
\* or wrong-command read ends the attempt: the next one starts while retries
\* remain, and (False, b'') is returned when none does.
C10_SuccessOnlyIfValid == []SuccessIsValidated /\ [][BadReadMovesOn]_vars

\* a wrong-command response in the last attempt: the call fails
C10_Witness ==
    /\ pc = "returned"
    /\ attempt = retries
    /\ response = <<59, 0, 59>>
    /\ cmd = 58
    /\ result = Failure

\* the names of the serial operations of the call so far, in order
OpName(i) == ops[i][1]

\* C11 as stated: a failed write is surfaced and not retried, so that no
\* write follows a failed write within one send_command call.
C11_FailedWriteNotRetried ==
    \A i \in 1..Len(ops), j \in 1..Len(ops) :
        (i < j /\ OpName(i) = "write_error")
            => OpName(j) \notin {"write", "write_error"}

FailedWriteMovesOn ==
    (pc = "write" /\ pc' \notin {"write", "read"}) => MovesOn

FailureOnlyAtTheEnd ==
    (pc = "returned" /\ result = Failure) => attempt = retries

\* C11, amended: a failed write (port not open, or serial.write / flush
\* raising) only ends the attempt: the next attempt starts while retries
\* remain, and (False, b'') is returned only after the last attempt.
C11_FailedWriteEndsAttempt ==
    [][FailedWriteMovesOn]_vars /\ []FailureOnlyAtTheEnd

\* a write that raised, then a write of the same call that went through and
\* was answered with a valid response
C11_Witness ==
    /\ pc = "returned"
    /\ result.ret[1]
    /\ \E i \in 1..Len(ops), j \in 1..Len(ops) :
          i < j /\ OpName(i) = "write_error" /\ OpName(j) = "write"

\* C12 as stated: send_command never throws; every call ends by returning a
\* (success, data) pair.
C12_NeverThrows ==
    /\ pc # "raised"
    /\ result.exc \in {"unset", "none"}
    /\ (pc = "returned") = (result.exc = "none")

\* a step in which write_config refuses its argument leaves the port alone
RejectedUntouched ==
    (method' = "write_config" /\ pc' = "rejected"
        /\ (pc # "rejected" \/ data' # data \/ method # "write_config"))
        => (serial' = serial /\ rxbuf' = rxbuf)

WriteConfigChecked ==
    method = "write_config" =>
        IF Len(data) # 13
        THEN pc = "rejected" /\ ops = <<>> /\ reads = <<>> /\ packet = <<>>
        ELSE /\ pc # "rejected"
             /\ cmd = WRITE_CONFIG
             /\ packet = build_packet(WRITE_CONFIG, data)
             /\ \A i \in 1..Len(ops) :
                   OpName(i) \in {"write", "write_error"} => ops[i][2] = 16

\* C13: write_config with a payload whose length is not 13 returns False and
\* performs no serial operation (nothing written, read or cleared, the port
\* left as it was); a 13-byte payload goes to send_command as WRITE_CONFIG,
\* and every frame written for it is the 16-byte frame of that payload.
C13_WriteConfigNeeds13 == []WriteConfigChecked /\ [][RejectedUntouched]_vars

\* a 14-byte payload refused on an open port with no serial operation
C13_Witness ==
    /\ method = "write_config"
    /\ Len(data) = 14
    /\ pc = "rejected"
    /\ serial = "open"
    /\ ops = <<>>

\* C14: at most one request is outstanding: every frame written is followed
\* by one _read_bytes before anything else is written, so the frames written
\* so far are the reads done so far plus the one being awaited.
C14_OneOutstandingRequest ==
    /\ CountOps(ops, {"write"}) = Len(reads) + (IF pc = "read" THEN 1 ELSE 0)
    /\ (pc = "read") => (Len(ops) >= 1 /\ OpName(Len(ops)) = "write")
    /\ \A i \in 1..Len(ops), j \in 1..Len(ops) :
          (i < j /\ OpName(i) = "write"
                 /\ OpName(j) \in {"write", "write_error"})
            => \E k \in (i + 1)..(j - 1) : OpName(k) = "read"

\* three frames written in one call, each read before the next was written
C14_Witness ==
    /\ pc = "returned"
    /\ CountOps(ops, {"write"}) = 3
    /\ Len(reads) = 3

(***************************************************************************)
(* Properties of the calibration decoder (SpecParser)                      *)
(***************************************************************************)
\* the last call was get_config_value(p_call.name); the buffer it read is
\* config_data, which no get call changes
GotValue == p_call.op = "get_config_value"

\* the last call was get_config_value of a key of the table
GotEntry == GotValue /\ HasParam(calibration_params, p_call.name)

Entry == Lookup(calibration_params, p_call.name)

\* the four cases in which nothing can be decoded
AbsentCase ==
    \/ config_data = <<>>
    \/ ~HasParam(calibration_params, p_call.name)
    \/ Entry.offset >= Len(config_data)
    \/ /\ Entry.type = 2
       /\ Entry.offset + Get(Entry.length, 2) > Len(config_data)

\* C15: get_config_value returns None exactly when the buffer is empty, or
\* the name is no key of the table, or the entry's offset is at or beyond the
\* end of the buffer, or the entry is multi-byte and ends beyond the buffer;
\* otherwise it returns a decoded int or str.
C15_AbsentExactlyWhenOutside ==
    GotValue =>
        /\ (p_call.val = None) <=> AbsentCase
        /\ p_call.val # None => p_call.val[1].kind \in {"int", "str"}

\* a two-byte field that starts inside a 24-byte buffer and ends outside it
C15_Witness ==
    /\ GotValue
    /\ p_call.name = "controller_voltage"
    /\ Len(config_data) = 24
    /\ p_call.val = None

GotAll == p_call.op = "get_all_config"

\* the place of a key in the table
IndexOf(name) ==
    CHOOSE i \in 1..Len(calibration_params) : calibration_params[i].name = name

Decodable ==
    {i \in 1..Len(calibration_params) :
        get_config_value(calibration_params, config_data,
                         calibration_params[i].name) # None}

\* C16: get_all_config returns one item for each key whose get_config_value
\* is not None, no other, each with that value (0 and "" included), in the
\* insertion order of the table; for an empty buffer it returns {}.
C16_AllDecodableInTableOrder ==
    GotAll =>
        LET items == p_call.items
        IN  /\ Len(items) = Cardinality(Decodable)
            /\ \A k \in 1..Len(items) :
                  /\ HasParam(calibration_params, items[k][1])
                  /\ IndexOf(items[k][1]) \in Decodable
                  /\ Some(items[k][2]) =
                        get_config_value(calibration_params, config_data,
                                         items[k][1])
            /\ \A k \in 1..Len(items), l \in 1..Len(items) :
                  k < l => IndexOf(items[k][1]) < IndexOf(items[l][1])
            /\ config_data = <<>> => items = <<>>

\* 25 zero bytes: the empty module name and the zeros are kept, and the
\* entries added last come last although their offsets are not the largest
C16_Witness ==
    /\ GotAll
    /\ config_data = Fill(25, 0)
    /\ calibration_params # CALIBRATION_PARAMS
    /\ p_call.items[1] = <<"module_name", PyStr(<<>>)>>
    /\ p_call.items[5] = <<"startup_hpedal", PyInt(0)>>
    /\ p_call.items[Len(p_call.items)] = <<"probe_default_bit", PyInt(0)>>

\* a get call leaves the buffer and the monitor data as they were
GetLeavesState ==
    p_call'.op \in {"get_config_value", "get_all_config"}
        => (config_data' = config_data /\ monitor' = monitor)

\* get_all_config straight after get_all_config returns the same dict
GetAllAgain ==
    (GotAll /\ p_call'.op = "get_all_config")
        => p_call'.items = p_call.items

\* C17: get_config_value and get_all_config change neither the stored buffer
\* nor the monitor data, and two get_all_config calls in a row return equal
\* mappings.
C17_DecodingIsSnapshot == [][GetLeavesState]_vars /\ [][GetAllAgain]_vars

\* the second of two get_all_config calls on the 25-byte block
C17_Witness ==
    /\ GotAll
    /\ repeat = 2
    /\ config_data = Scenario
    /\ Len(p_call.items) >= 14

\* b has binary digit v at place bit
DigitAt(b, bit, v) ==
    \E hi \in 0..255, lo \in 0..(Pow2(bit) - 1) :
        b = hi * Pow2(bit + 1) + v * Pow2(bit) + lo

\* what the last get_config_value returned, when it is v
Got(name, v) == p_call.name = name => p_call.val = Some(v)

\* C18: a bit entry inside the buffer decodes to the binary digit of
\* buffer[offset] at the entry's bit index, 0 or 1; with buffer[0x15] =
\* 10000011, foot_switch, sw_level and change_dir are 1, controller_type 0.
C18_BitDecode ==
    (GotEntry /\ Entry.type = 0 /\ Entry.offset < Len(config_data)) =>
        /\ \E v \in {0, 1} :
              /\ p_call.val = Some(PyInt(v))
              /\ DigitAt(config_data[Entry.offset + 1], Get(Entry.bit, 0), v)
        /\ (Len(config_data) >= 22 /\ config_data[22] = 131) =>
              /\ Got("foot_switch", PyInt(1))
              /\ Got("sw_level", PyInt(1))
              /\ Got("change_dir", PyInt(1))
              /\ Got("controller_type", PyInt(0))

C18_Witness ==
    /\ GotValue
    /\ p_call.name = "change_dir"
    /\ config_data = Scenario
    /\ p_call.val = Some(PyInt(1))

\* C19: a byte entry inside the buffer decodes to buffer[offset], 0..255,
\* unless its format is "so": then to the value in -128..127 that is
\* buffer[offset] below 128 and buffer[offset] - 256 from 128 on.
C19_ByteDecode ==
    (GotEntry /\ Entry.type = 1 /\ Entry.offset < Len(config_data)) =>
        LET b == config_data[Entry.offset + 1]
        IN  \E n \in -128..255 :
              /\ p_call.val = Some(PyInt(n))
              /\ IF Entry.format = "so"
                 THEN /\ n \in -128..127
                      /\ b < 128 => n = b
                      /\ b >= 128 => n = b - 256
                 ELSE n = b

\* the signed byte 0x80
C19_Witness ==
    /\ GotValue
    /\ p_call.name = "probe_signed_byte"
    /\ config_data = Fill(25, 128)
    /\ p_call.val = Some(PyInt(-128))

\* sum over i of bytes[i] * 256^(length - 1 - i)
RECURSIVE BigEndian(_)
BigEndian(bytes) ==
    IF bytes = <<>> THEN 0
    ELSE bytes[1] * Pow2(8 * (Len(bytes) - 1)) + BigEndian(Tail(bytes))

\* C20: a multi-byte entry that is neither ASCII nor hex and lies inside the
\* buffer decodes to the big-endian unsigned integer of its bytes, whatever
\* its length and whether or not its format is "so".
C20_BigEndianUnsigned ==
    (GotEntry /\ Entry.type = 2 /\ Entry.format \notin {"a", "h"}
        /\ Entry.offset + Get(Entry.length, 2) <= Len(config_data)) =>
        p_call.val = Some(PyInt(BigEndian(
            SubSeq(config_data, Entry.offset + 1,
                   Entry.offset + Get(Entry.length, 2)))))

\* three bytes 5e 83 a8 tagged signed
C20_Witness ==
    /\ GotValue
    /\ p_call.name = "probe_int3_signed"
    /\ config_data = Mixed(25)
    /\ p_call.val = Some(PyInt(6194088))

\* the bytes of the field of the entry asked for
FieldBytes ==
    SubSeq(config_data, Entry.offset + 1, Entry.offset + Get(Entry.length, 2))

IsAscii(b) == b < 128

\* t is text without its trailing NULs, and nothing else is gone
StrippedOf(t, text) ==
    /\ Len(t) <= Len(text)
    /\ t = SubSeq(text, 1, Len(t))
    /\ (t # <<>> => t[Len(t)] # 0)
    /\ \A i \in (Len(t) + 1)..Len(text) : text[i] = 0

\* C21: an ASCII entry inside the buffer decodes to the text of its bytes
\* without the trailing NULs; leading and embedded NULs stay; the 8-byte
\* field "MOTOR" NUL NUL NUL decodes to "MOTOR".
C21_AsciiTrailingNulStripped ==
    (GotEntry /\ Entry.type = 2 /\ Entry.format = "a"
        /\ Entry.offset + Get(Entry.length, 2) <= Len(config_data)) =>
        /\ p_call.val # None
        /\ p_call.val[1].kind = "str"
        /\ StrippedOf(p_call.val[1].s, SelectSeq(FieldBytes, IsAscii))
        /\ FieldBytes = <<77, 79, 84, 79, 82, 0, 0, 0>>
              => p_call.val = Some(PyStr(<<77, 79, 84, 79, 82>>))

\* "MOTOR" out of the padded field
C21_Witness ==
    /\ GotValue
    /\ p_call.name = "module_name"
    /\ config_data = MotorBlock
    /\ p_call.val = Some(PyStr(<<77, 79, 84, 79, 82>>))

Parsed == p_call.op = "parse_response"

\* the monitor-one fields in the order of the payload bytes
MonitorOneFields ==
    <<"tps_pedal", "brake_pedal", "brake_sw1", "foot_sw", "forward_sw",
      "reverse_sw", "hall_a", "hall_b", "hall_c", "battery_voltage",
      "motor_temp", "controller_temp", "setting_dir", "actual_dir",
      "brake_sw2", "low_speed">>

\* C22: parse_response(MONITOR_ONE, data) returns True and stores data[0] ..
\* data[15] in the sixteen monitor-one fields, in order, when data has at
\* least 16 bytes, and returns False when it has fewer.
C22_MonitorOneFields ==
    (Parsed /\ p_call.cmd = MONITOR_ONE) =>
        /\ p_call.ok <=> Len(p_call.data) >= 16
        /\ Len(p_call.data) >= 16 =>
              \A i \in 1..16 : monitor[MonitorOneFields[i]] = p_call.data[i]

\* a 17-byte payload: the first sixteen bytes are stored
C22_Witness ==
    /\ Parsed
    /\ p_call.cmd = MONITOR_ONE
    /\ Len(p_call.data) = 17
    /\ p_call.ok
    /\ monitor.tps_pedal = 1
    /\ monitor.low_speed = 16

\* the shortest payload parse_response takes for a command, 0 for a command
\* that takes any payload; commands it does not handle have none
Handled == {MONITOR_ONE, MONITOR_TWO, MONITOR_THREE, READ_CONFIG, GET_VERSION}

MinPayload(c) ==
    IF c = MONITOR_ONE THEN 16
    ELSE IF c = MONITOR_TWO THEN 6
    ELSE IF c = MONITOR_THREE THEN 2
    ELSE 0

\* False is returned for short monitor payloads and unhandled commands only
FalseWhenShortOrUnknown ==
    Parsed =>
        (~p_call.ok <=> (\/ p_call.cmd \notin Handled
                         \/ Len(p_call.data) < MinPayload(p_call.cmd)))

\* a parse_response that returns False changes no field
FalseChangesNothing ==
    (p_call'.op = "parse_response" /\ ~p_call'.ok)
        => (monitor' = monitor /\ config_data' = config_data)

\* C29: parse_response returns False for a monitor payload shorter than 16,
\* 6 or 2 bytes and for a command it does not handle, and then every
\* MonitorData field and the stored calibration buffer are as before.
C29_FalseLeavesState == []FalseWhenShortOrUnknown /\ [][FalseChangesNothing]_vars

\* a 5-byte monitor-two payload refused after a monitor-one payload and a
\* calibration block were stored: both are still there, the speed is not set
C29_Witness ==
    /\ Parsed
    /\ p_call.cmd = MONITOR_TWO
    /\ Len(p_call.data) = 5
    /\ ~p_call.ok
    /\ monitor.tps_pedal = 1
    /\ monitor.motor_speed = 0
    /\ config_data = MotorBlock

(***************************************************************************)
(* Properties of the request cycle, continued (Spec)                       *)
(***************************************************************************)
IsWrite(i) == OpName(i) \in {"write", "write_error"}

\* the operations of a call follow the cycle reset, write, read
StepsInOrder ==
    \A i \in 1..Len(ops) :
        /\ IsWrite(i) => (i > 1 /\ OpName(i - 1) = "reset")
        /\ OpName(i) = "reset" =>
              (i = 1 \/ OpName(i - 1) \in {"read", "write_error"})
        /\ OpName(i) = "read" =>
              /\ i > 1
              /\ OpName(i - 1) \in {"write", "read"}
              /\ OpName(i - 1) = "read" => (i > 2 /\ OpName(i - 2) = "write")

\* every frame written is the frame built once from the arguments
SameFrame ==
    /\ InCall => packet = build_packet(cmd, data)
    /\ \A i \in 1..Len(ops) : OpName(i) = "write" => ops[i][3] = packet

\* where the call stands agrees with the last operation
ValidateAfterRead ==
    /\ (pc = "write" /\ is_open) =>
          (ops # <<>> /\ OpName(Len(ops)) = "reset" /\ rxbuf = <<>>)
    /\ pc = "validate" =>
          /\ ops # <<>> /\ OpName(Len(ops)) = "read"
          /\ reads # <<>> /\ reads[Len(reads)].bytes = response

\* C25: in every attempt on an existing port the buffer is cleared, then the
\* frame is written, then one response is read, then it is validated; the
\* clear comes right before every write, retries included, and never after
\* it; every attempt writes the same frame, built once.
C25_ClearWriteReadValidate == StepsInOrder /\ SameFrame /\ ValidateAfterRead

\* three attempts: a write that raised, a timeout, a valid response
C25_Witness ==
    /\ pc = "returned"
    /\ result.ret[1]
    /\ Len(ops) = 9
    /\ OpName(1) = "reset" /\ OpName(2) = "write_error"
    /\ OpName(3) = "reset" /\ OpName(4) = "write" /\ OpName(5) = "read"
    /\ OpName(6) = "reset" /\ OpName(7) = "write" /\ OpName(8) = "read"
    /\ OpName(9) = "read"

\* the reads a _read_bytes step asked for
NewOps == SubSeq(ops', Len(ops) + 1, Len(ops'))

\* _read_bytes asks for 2 bytes, stops when fewer come, else asks for the
\* declared length, 16 at most, and the checksum
HeaderThenBody ==
    (pc = "read" /\ pc' # "read") =>
        /\ Len(NewOps) \in {1, 2}
        /\ NewOps[1] = <<"read", 2>>
        /\ Len(rxbuf) < 2 => (Len(NewOps) = 1 /\ response' = <<>>)
        /\ Len(NewOps) = 1 => response' = <<>>
        /\ Len(NewOps) = 2 =>
              /\ Len(rxbuf) >= 2
              /\ NewOps[2] = <<"read", Min(rxbuf[2], 16) + 1>>
              /\ NewOps[2][2] <= 17
        /\ Len(response') <= 19
        /\ response' # <<>> => Len(NewOps) = 2

\* no read of a call asked for more than 17 bytes or returned more than 19
ReadsBounded ==
    /\ \A i \in 1..Len(ops) : OpName(i) = "read" => ops[i][2] <= 17
    /\ \A i \in 1..Len(reads) : Len(reads[i].bytes) <= 19

\* C26: _read_bytes first asks for exactly 2 bytes and returns empty without
\* a second read when fewer arrive; otherwise it asks for exactly
\* min(header[1], 16) + 1 more, so never for more than 17, and never returns
\* more than 19 bytes.
C26_HeaderDrivenBoundedRead == [][HeaderThenBody]_vars /\ []ReadsBounded

\* a header that declares 255 bytes: 17 are asked for, 19 come back
C26_Witness ==
    /\ pc = "validate"
    /\ Len(response) = 19
    /\ response[2] = 255
    /\ ops[Len(ops)] = <<"read", 17>>

DeclaresTooMuch(p) == Len(p) >= 2 /\ p[2] > 16

\* an attempt that read a header declaring more than 16 bytes fails
TooLongMovesOn ==
    (pc = "validate" /\ DeclaresTooMuch(response) /\ pc' # "validate")
        => MovesOn

\* a call that succeeded did not read such a header last
TooLongNeverReturned ==
    (pc = "returned" /\ result.ret[1]) => ~DeclaresTooMuch(response)

\* C27: a response whose header declares more than 16 payload bytes is
\* never accepted: the attempt that read it counts as failed, whatever
\* follows the header.
C27_OverlongNeverAccepted == [][TooLongMovesOn]_vars /\ []TooLongNeverReturned

\* the last attempt read the frame that declares 17 bytes; the call failed
C27_Witness ==
    /\ pc = "returned"
    /\ result = Failure
    /\ Len(response) = 19
    /\ response[2] = 17
    /\ reads[Len(reads)].bytes = response

(***************************************************************************)
(* Properties of decode_errors (SpecErrors)                                *)
(***************************************************************************)
\* the bits of error_word that are set
SetBits == {b \in 0..15 : BitSet(error_word, b)}

\* C24: decode_errors(w) has one element per set bit of w, Reserved bits
\* included: the description of set bit b stands at the place given by the
\* number of set bits below b, so the list is in ascending bit order; it is
\* empty for w = 0.
C24_DecodeErrors ==
    errors.exc # "unset" =>
        /\ errors.exc = "none"
        /\ Len(errors.ret) = Cardinality(SetBits)
        /\ \A b \in SetBits :
              errors.ret[Cardinality({x \in SetBits : x < b}) + 1]
                  = ERROR_CODES[b + 1]
        /\ error_word = 0 => errors.ret = <<>>

\* 0x8009: bits 0, 3 and 15
C24_Witness ==
    /\ error_word = 32769 + 8
    /\ errors = Return(<<"Identification Error", "Reserved", "Motor Over Temp">>)

(***************************************************************************)
(* Properties of KellyController (SpecController)                          *)
(***************************************************************************)
\* read_monitor has returned / has been left by an exception
MonitorReturned == k_pc = "returned" /\ monitor_num > 0
MonitorRaised == k_pc = "raised" /\ monitor_num > 0

\* the three queries of a cycle that returned, and what it returned
CycleShape ==
    MonitorReturned =>
        /\ Len(queries) = 3
        /\ \A i \in 1..3 : queries[i].cmd = MONITOR_ONE + (i - 1)
        /\ k_ret <=> \A i \in 1..3 :
              queries[i].ok /\ Accepts(queries[i].response, queries[i].cmd)

\* C23: read_monitor always issues the queries 0x3A, 0x3B, 0x3C in this
\* order, a failed query not keeping the later ones from being sent, and
\* returns True exactly when all three got a validated response.
C23_ThreeQueriesInOrder == ~MonitorRaised /\ CycleShape

\* C30: when read_monitor returns True, each of the three responses was
\* parsed successfully, so the monitor fields hold the payloads of this
\* cycle.
C30_TrueMeansParsed ==
    (MonitorReturned /\ k_ret) =>
        /\ \A i \in 1..3 : queries[i].parsed
        /\ \A i \in 1..16 : monitor[MonitorOneFields[i]] = queries[1].data[i]
        /\ monitor.motor_speed = queries[2].data[4] * 256 + queries[2].data[5]
        /\ monitor.phase_current = queries[2].data[6]
        /\ monitor.error_code = queries[3].data[1] * 256 + queries[3].data[2]

\* the dict get_all_config returns for the stored buffer
AllConfigNow ==
    get_all_config(calibration_params, config_data, Len(calibration_params))

\* read_config has returned
ConfigReturned == k_pc = "returned" /\ monitor_num = 0

\* C28: a successful send_command returns at most 16 payload bytes; so the
\* calibration buffer stored by read_config has at most 16 bytes, every
\* entry at offset 0x10 or beyond is absent, and get_all_config after
\* read_config has no key but module_name, user_name and serial_number.
C28_ConfigAtMost16Bytes ==
    /\ (pc = "returned" /\ result.ret[1]) => Len(result.ret[2][1]) <= 16
    /\ Len(config_data) <= 16
    /\ ConfigReturned =>
          /\ \A i \in 1..Len(calibration_params) :
                calibration_params[i].offset >= 16 =>
                    get_config_value(calibration_params, config_data,
                                     calibration_params[i].name) = None
          /\ \A k \in 1..Len(AllConfigNow) :
                AllConfigNow[k][1]
                    \in {"module_name", "user_name", "serial_number"}

\* read_config stored a 16-byte payload: the three keys and no more
C28_Witness ==
    /\ k_pc = "returned"
    /\ monitor_num = 0
    /\ k_ret
    /\ config_data = Ramp(16)
    /\ Len(AllConfigNow) = 3
    /\ AllConfigNow[3] = <<"serial_number", PyStr(hex(<<13, 14, 15, 16>>))>>

=============================================================================
